---- MODULE Spec2Model ----
(***************************************************************************)
(* A model of the lispy evaluator (src/main.c): the value model, the       *)
(* environment chain, the builtins, the call protocol and the read-eval-   *)
(* print loop.  The evaluator is a recursive reduction; it is modelled by  *)
(* recursive operators that thread an evaluation record `r` (the live      *)
(* environments, the value just produced, and a trace of what happened),   *)
(* and the loop of main() is the state machine around it.                  *)
(***************************************************************************)
EXTENDS Integers, Sequences, FiniteSets, TLC

VARIABLES genv, out, hist, lines

vars == <<genv, out, hist, lines>>

(***************************************************************************)
(* Bounds of the model.                                                    *)
(***************************************************************************)
\* width in bits of the signed Number type (C long, modelled narrow)
NumBits == 4
\* nested lval_eval activations the C stack holds before it is exhausted
MaxDepth == 9
\* lines the loop of main() reads
MaxLines == 2

NumMin == -(2 ^ (NumBits - 1))
NumMax == (2 ^ (NumBits - 1)) - 1
NumRange == NumMin .. NumMax

(***************************************************************************)
(* Types (enum at main.c:40) and their printed names.                      *)
(***************************************************************************)
LVAL_ERR == "LVAL_ERR"
LVAL_NUM == "LVAL_NUM"
LVAL_SYM == "LVAL_SYM"
LVAL_FUN == "LVAL_FUN"
LVAL_SEXPR == "LVAL_SEXPR"
LVAL_QEXPR == "LVAL_QEXPR"

\* a null pointer in a string-typed field (lbuiltin)
NULL == "NULL"

Ltype2name(t) ==
  CASE t = LVAL_FUN -> "Function"
    [] t = LVAL_NUM -> "Number"
    [] t = LVAL_ERR -> "Error"
    [] t = LVAL_SYM -> "Symbol"
    [] t = LVAL_SEXPR -> "S-Expression"
    [] t = LVAL_QEXPR -> "Q-Expression"
    [] OTHER -> "Unknown"

(***************************************************************************)
(* Value constructors.  An Error's message is kept as its format string    *)
(* and the arguments formatted into it.                                    *)
(***************************************************************************)
LvalNum(x) == [type |-> LVAL_NUM, num |-> x]

LvalErr(e) == [type |-> LVAL_ERR, err |-> e]

LvalSym(s) == [type |-> LVAL_SYM, sym |-> s]

LvalFun(func) == [type |-> LVAL_FUN, builtin |-> func]

\* an environment: parent is the index of a live environment, 0 for NULL
LenvNew == [parent |-> 0, syms |-> <<>>, vals |-> <<>>]

LvalLambda(formals, body) ==
  [type |-> LVAL_FUN, builtin |-> NULL, env |-> LenvNew,
   formals |-> formals, body |-> body]

LvalSexpr == [type |-> LVAL_SEXPR, cell |-> <<>>]

LvalQexpr == [type |-> LVAL_QEXPR, cell |-> <<>>]

\* v->count
Count(v) == Len(v.cell)

LvalAdd(v, x) == [v EXCEPT !.cell = Append(@, x)]

\* the sequence s without its element i
Remove(s, i) == [j \in 1 .. (Len(s) - 1) |-> IF j < i THEN s[j] ELSE s[j + 1]]

\* lval_pop leaves v without cell i and returns the cell: the two halves
LvalPopRest(v, i) == [v EXCEPT !.cell = Remove(@, i)]

LvalPop(v, i) == v.cell[i]

\* lval_take: the cell, v freed
LvalTake(v, i) == LvalPop(v, i)

IsErr(v) == v.type = LVAL_ERR

IsClosure(v) == v.type = LVAL_FUN /\ v.builtin = NULL

(***************************************************************************)
(* Deep copy of a value and of an environment.                             *)
(***************************************************************************)
RECURSIVE LvalCopy(_)
RECURSIVE LenvCopy(_)

\* a plausible bug: the copy of an environment keeps none of its bindings
LenvCopy_Empty(e) == [parent |-> e.parent, syms |-> <<>>, vals |-> <<>>]

LenvCopy(e) ==
  [parent |-> e.parent,
   syms |-> [i \in 1 .. Len(e.syms) |-> e.syms[i]],
   vals |-> [i \in 1 .. Len(e.vals) |-> LvalCopy(e.vals[i])]]

LvalCopy(v) ==
  CASE v.type = LVAL_NUM -> LvalNum(v.num)
    [] v.type = LVAL_FUN ->
         IF v.builtin # NULL
           THEN LvalFun(v.builtin)
           ELSE [type |-> LVAL_FUN, builtin |-> NULL, env |-> LenvCopy(v.env),
                 formals |-> LvalCopy(v.formals), body |-> LvalCopy(v.body)]
    [] v.type = LVAL_ERR -> LvalErr(v.err)
    [] v.type = LVAL_SYM -> LvalSym(v.sym)
    [] OTHER -> [type |-> v.type,
                 cell |-> [i \in 1 .. Len(v.cell) |-> LvalCopy(v.cell[i])]]

\* lval_join: the cells of y appended to x
LvalJoin(x, y) == [x EXCEPT !.cell = @ \o y.cell]

(***************************************************************************)
(* Environments.  `frames` is the sequence of live environments: frames[1] *)
(* is the global one, and a closure's environment is live (has an index)   *)
(* from the call that evaluates its body until the closure is freed.       *)
(***************************************************************************)
\* the first index of name k in syms, 0 when absent (the strcmp loop)
Find(syms, k) ==
  IF \E i \in 1 .. Len(syms) : syms[i] = k
    THEN CHOOSE i \in 1 .. Len(syms) :
           syms[i] = k /\ \A j \in 1 .. (i - 1) : syms[j] # k
    ELSE 0

\* a pointer to a value: the binding (frame fr, slot ix) it points into, or
\* (0, 0) for a node of its own
NoRef == [fr |-> 0, ix |-> 0]

RECURSIVE LenvGet(_, _, _)

\* a plausible bug: lookup hands out the stored value itself, not a copy
LenvGet_Alias(frames, e, k) ==
  LET i == Find(frames[e].syms, k.sym) IN
    IF i > 0
      THEN [val |-> frames[e].vals[i], ref |-> [fr |-> e, ix |-> i], at |-> e]
      ELSE IF frames[e].parent # 0
        THEN LenvGet(frames, frames[e].parent, k)
        ELSE [val |-> LvalErr([fmt |-> "Unknown symbol '%s' !", sym |-> k.sym]),
              ref |-> NoRef, at |-> 0]

\* a plausible bug: a miss goes straight to the outermost environment
LenvGet_SkipToGlobal(frames, e, k) ==
  LET i == Find(frames[e].syms, k.sym) IN
    IF i > 0
      THEN [val |-> LvalCopy(frames[e].vals[i]), ref |-> NoRef, at |-> e]
      ELSE IF frames[e].parent # 0
        THEN LenvGet(frames, 1, k)
        ELSE [val |-> LvalErr([fmt |-> "Unknown symbol '%s' !", sym |-> k.sym]),
              ref |-> NoRef, at |-> 0]

\* val: the value returned; ref: what the returned pointer points into;
\* at: the environment that held the binding (0: none did)
LenvGet(frames, e, k) ==
  LET i == Find(frames[e].syms, k.sym) IN
    IF i > 0
      THEN [val |-> LvalCopy(frames[e].vals[i]), ref |-> NoRef, at |-> e]
      ELSE IF frames[e].parent # 0
        THEN LenvGet(frames, frames[e].parent, k)
        ELSE [val |-> LvalErr([fmt |-> "Unknown symbol '%s' !", sym |-> k.sym]),
              ref |-> NoRef, at |-> 0]

\* a plausible bug: the binding is always appended, never overwritten
LenvPut_Append(e, k, v) ==
  [e EXCEPT !.syms = Append(@, k.sym), !.vals = Append(@, LvalCopy(v))]

LenvPut(e, k, v) ==
  LET i == Find(e.syms, k.sym) IN
    IF i > 0
      THEN [e EXCEPT !.vals[i] = LvalCopy(v)]
      ELSE [e EXCEPT !.syms = Append(@, k.sym), !.vals = Append(@, LvalCopy(v))]

RECURSIVE Outermost(_, _)

\* while (e->parent) { e = e->parent; }
Outermost(frames, e) ==
  IF frames[e].parent # 0 THEN Outermost(frames, frames[e].parent) ELSE e

\* a plausible bug: def binds in the current environment
LenvGlobalPut_Local(frames, e, k, v) ==
  [frames EXCEPT ![e] = LenvPut(@, k, v)]

LenvGlobalPut(frames, e, k, v) ==
  [frames EXCEPT ![Outermost(frames, e)] = LenvPut(@, k, v)]

\* the builtins registered by lenv_add_builtins, in its order
BuiltinNames ==
  <<"def", "=", "fun", "list", "head", "tail", "eval", "join", "+", "-", "*", "/">>

RECURSIVE LenvAddBuiltins(_, _)

LenvAddBuiltin(e, name, func) == LenvPut(e, LvalSym(name), LvalFun(func))

LenvAddBuiltins(e, i) ==
  IF i > Len(BuiltinNames)
    THEN e
    ELSE LenvAddBuiltins(LenvAddBuiltin(e, BuiltinNames[i], BuiltinNames[i]), i + 1)

(***************************************************************************)
(* Arithmetic on the fixed-width signed Number.                            *)
(***************************************************************************)
\* two's-complement wrap-around of + - * and unary - at NumBits bits
Wrap(n) == ((n + 2 ^ (NumBits - 1)) % (2 ^ NumBits)) - 2 ^ (NumBits - 1)

Abs(n) == IF n < 0 THEN -n ELSE n

\* C's x / y for y # 0 and a representable quotient: truncation toward zero
TruncDiv(x, y) ==
  IF (x < 0) = (y < 0) THEN Abs(x) \div Abs(y) ELSE -(Abs(x) \div Abs(y))

\* NumMin / -1 overflows: undefined behaviour.  A build either traps (the
\* process dies of SIGFPE) or leaves the wrapped quotient.
UBOutcomes == {"trap", "wrap"}

RECURSIVE OpLoop(_, _, _, _)

\* the while loop of builtin_op: x folded with the cells of a.  st is "ok",
\* "div0" (x replaced by the Error) or "fault" (the process died)
OpLoop(x, a, op, ub) ==
  IF Count(a) = 0
    THEN [st |-> "ok", num |-> x]
    ELSE
      LET y == LvalPop(a, 1).num
          rest == LvalPopRest(a, 1)
      IN CASE op = "+" -> OpLoop(Wrap(x + y), rest, op, ub)
           [] op = "-" -> OpLoop(Wrap(x - y), rest, op, ub)
           [] op = "*" -> OpLoop(Wrap(x * y), rest, op, ub)
           [] OTHER ->
                IF y = 0
                  THEN [st |-> "div0", num |-> x]
                  ELSE IF x = NumMin /\ y = -1
                    THEN IF ub = "trap"
                           THEN [st |-> "fault", num |-> x]
                           ELSE OpLoop(NumMin, rest, op, ub)
                    ELSE OpLoop(TruncDiv(x, y), rest, op, ub)

(***************************************************************************)
(* The evaluation record r.                                                *)
(*   frames   the live environments                                        *)
(*   val, ref the value just returned and what its pointer points into     *)
(*   status   "ok"; "overflow": the C stack is exhausted; "fault": SIGFPE  *)
(*   ub       what this build does on undefined behaviour                  *)
(*   tick     a clock: one tick per lookup, per evaluated child, per put   *)
(*   maxd     the deepest nesting of lval_eval reached                     *)
(*   reent    builtin_eval has run (eval, or a closure's body)             *)
(*   groups, calls, puts, gets, vars, lambdas: the trace, see the          *)
(*   operators that append to them                                         *)
(***************************************************************************)
StartEval(g, ub) ==
  [frames |-> <<g>>, val |-> LvalSexpr, ref |-> NoRef, status |-> "ok",
   ub |-> ub, tick |-> 0, maxd |-> 0, reent |-> FALSE,
   groups |-> <<>>, calls |-> <<>>, puts |-> <<>>, gets |-> <<>>,
   vars |-> <<>>, lambdas |-> <<>>]

\* return x, a node of its own
Ret(r, x) == [r EXCEPT !.val = x, !.ref = NoRef]

\* LASSERT: the Error is returned, args freed
RetErr(r, e) == Ret(r, LvalErr(e))

Max(a, b) == IF a > b THEN a ELSE b

Min(S) == CHOOSE x \in S : \A y \in S : x <= y

MaxOf(S) == CHOOSE x \in S : \A y \in S : y <= x

\* the value a cell's pointer reads now
Deref(frames, c) ==
  IF c.ref = NoRef THEN c.val ELSE frames[c.ref.fr].vals[c.ref.ix]

\* a write through the pointer to f: into the binding it points into, if any
Store(frames, ref, f) ==
  IF ref = NoRef THEN frames ELSE [frames EXCEPT ![ref.fr].vals[ref.ix] = f]

RECURSIVE LvalEval(_, _, _, _)
RECURSIVE LvalEvalSexpr(_, _, _, _)
RECURSIVE EvalCells(_, _, _, _, _)
RECURSIVE LvalCall(_, _, _, _, _, _)
RECURSIVE BuiltinEval(_, _, _, _)

(***************************************************************************)
(* Builtins.  Each takes r, the current environment e and the arguments a. *)
(***************************************************************************)
TypeErr(func, a, index, expect) ==
  [fmt |-> "Function '%s' passed incorrect type for argument %i. Got %s, Expected %s.",
   func |-> func, index |-> index,
   got |-> Ltype2name(a.cell[index + 1].type), expect |-> Ltype2name(expect)]

\* the indices of the cells of v that are not of type t
NotOfType(v, t) == {i \in 1 .. Count(v) : v.cell[i].type # t}

RECURSIVE VarPuts(_, _, _, _, _, _)

\* the loop at main.c:453: one binding per symbol, def in the outermost
\* environment, = in the current one; each put is traced
VarPuts(r, e, syms, a, i, func) ==
  IF i > Count(syms)
    THEN r
    ELSE
      LET k == syms.cell[i]
          v == a.cell[i + 1]
          fr == IF func = "def"
                  THEN LenvGlobalPut(r.frames, e, k, v)
                  ELSE IF func = "="
                    THEN [r.frames EXCEPT ![e] = LenvPut(@, k, v)]
                    ELSE r.frames
      IN VarPuts([r EXCEPT !.frames = fr, !.tick = @ + 1,
                           !.puts = Append(@, [func |-> func, e |-> e, sym |-> k.sym,
                                               val |-> v, tick |-> r.tick + 1])],
                 e, syms, a, i + 1, func)

\* the checks of builtin_var, in the code's order: the Error of the first
\* that fails, or ok
VarCheck(a, func) ==
  IF a.cell[1].type # LVAL_QEXPR
    THEN [ok |-> FALSE, err |-> TypeErr(func, a, 0, LVAL_QEXPR)]
    ELSE
      LET syms == a.cell[1]
          bad == NotOfType(syms, LVAL_SYM)
      IN IF bad # {}
           THEN [ok |-> FALSE,
                 err |-> [fmt |-> "Function '%s' cannot define non-symbol! Got %s, expected %s.",
                          func |-> func,
                          got |-> Ltype2name(syms.cell[Min(bad)].type),
                          expect |-> Ltype2name(LVAL_SYM)]]
           ELSE IF Count(syms) # Count(a) - 1
             THEN [ok |-> FALSE,
                   err |-> [fmt |-> "Function '%s' needs a value for each symbol!",
                            func |-> func]]
             ELSE [ok |-> TRUE, err |-> [fmt |-> ""]]

\* a plausible bug: the bindings are written before the count is checked
BuiltinVar_PutFirst(r, e, a, func) ==
  LET syms == a.cell[1]
      n == IF Count(syms) < Count(a) - 1 THEN Count(syms) ELSE Count(a) - 1
      c == VarCheck(a, func)
      okSyms == a.cell[1].type = LVAL_QEXPR /\ NotOfType(syms, LVAL_SYM) = {}
      r1 == IF okSyms
              THEN VarPuts(r, e, [syms EXCEPT !.cell = SubSeq(@, 1, n)], a, 1, func)
              ELSE r
      r2 == IF c.ok THEN Ret(r1, LvalSexpr) ELSE RetErr(r1, c.err)
  IN [r2 EXCEPT !.vars = Append(@, [func |-> func, e |-> e, a |-> a,
                                     before |-> r.frames, after |-> r2.frames,
                                     val |-> r2.val])]

\* vars traces the call: its arguments, the environments before and after
BuiltinVar(r, e, a, func) ==
  LET c == VarCheck(a, func)
      r2 == IF c.ok
              THEN Ret(VarPuts(r, e, a.cell[1], a, 1, func), LvalSexpr)
              ELSE RetErr(r, c.err)
  IN [r2 EXCEPT !.vars = Append(@, [func |-> func, e |-> e, a |-> a,
                                     before |-> r.frames, after |-> r2.frames,
                                     val |-> r2.val])]

BuiltinDef(r, e, a) == BuiltinVar(r, e, a, "def")

BuiltinSet(r, e, a) == BuiltinVar(r, e, a, "=")

\* lambdas traces each closure as constructed
BuiltinLambda(r, e, a) ==
  IF Count(a) # 2
    THEN RetErr(r, [fmt |-> "Function '%s' passed incorrect number of arguments. Got %i, Expected %i.",
                    func |-> "fun", gotn |-> Count(a), expn |-> 2])
    ELSE IF a.cell[1].type # LVAL_QEXPR
      THEN RetErr(r, TypeErr("fun", a, 0, LVAL_QEXPR))
      ELSE IF a.cell[2].type # LVAL_QEXPR
        THEN RetErr(r, TypeErr("fun", a, 1, LVAL_QEXPR))
        ELSE
          LET bad == NotOfType(a.cell[1], LVAL_SYM) IN
            IF bad # {}
              THEN RetErr(r, [fmt |-> "Cannot define non-symbol. Got %s, expected %s.",
                              got |-> Ltype2name(a.cell[1].cell[Min(bad)].type),
                              expect |-> Ltype2name(LVAL_SYM)])
              ELSE
                LET formals == LvalPop(a, 1)
                    body == LvalPop(LvalPopRest(a, 1), 1)
                    f == LvalLambda(formals, body)
                IN [Ret(r, f) EXCEPT !.lambdas = Append(@, f)]

BuiltinHead(r, e, a) ==
  IF Count(a) # 1
    THEN RetErr(r, [fmt |-> "Function 'head' wrong numberof arguments! Got %i, expected 1.",
                    gotn |-> Count(a)])
    ELSE IF a.cell[1].type # LVAL_QEXPR
      THEN RetErr(r, [fmt |-> "Function 'head' passed incorrect type! Got %s, expected %s.",
                      got |-> Ltype2name(a.cell[1].type),
                      expect |-> Ltype2name(LVAL_QEXPR)])
      ELSE IF Count(a.cell[1]) = 0
        THEN RetErr(r, [fmt |-> "Function 'head' passed {}!"])
        ELSE LET v == LvalTake(a, 1) IN Ret(r, [v EXCEPT !.cell = <<v.cell[1]>>])

BuiltinTail(r, e, a) ==
  IF Count(a) # 1
    THEN RetErr(r, [fmt |-> "Function 'tail' passed too many arguments!"])
    ELSE IF a.cell[1].type # LVAL_QEXPR
      THEN RetErr(r, [fmt |-> "Function 'tail' passed incorrect types!"])
      ELSE IF Count(a.cell[1]) = 0
        THEN RetErr(r, [fmt |-> "Function 'tail' passed {}!"])
        ELSE Ret(r, LvalPopRest(LvalTake(a, 1), 1))

BuiltinList(r, e, a) == Ret(r, [a EXCEPT !.type = LVAL_QEXPR])

BuiltinEval(r, e, a, d) ==
  IF Count(a) # 1
    THEN RetErr(r, [fmt |-> "Function 'eval' passed too many arguments!"])
    ELSE IF a.cell[1].type # LVAL_QEXPR
      THEN RetErr(r, [fmt |-> "Function 'eval' passed incorrect types!"])
      ELSE
        LET x == [LvalTake(a, 1) EXCEPT !.type = LVAL_SEXPR] IN
          LvalEval([r EXCEPT !.reent = TRUE], e, x, d + 1)

RECURSIVE JoinAll(_, _)

JoinAll(x, a) ==
  IF Count(a) = 0 THEN x ELSE JoinAll(LvalJoin(x, LvalPop(a, 1)), LvalPopRest(a, 1))

BuiltinJoin(r, e, a) ==
  IF NotOfType(a, LVAL_QEXPR) # {}
    THEN RetErr(r, [fmt |-> "Function 'join' passed incorrect types!"])
    ELSE Ret(r, JoinAll(LvalPop(a, 1), LvalPopRest(a, 1)))

BuiltinOp(r, e, a, op) ==
  IF NotOfType(a, LVAL_NUM) # {}
    THEN RetErr(r, [fmt |-> "Cannot operate on non-number"])
    ELSE
      LET x == LvalPop(a, 1).num
          rest == LvalPopRest(a, 1)
          x1 == IF op = "-" /\ Count(rest) = 0 THEN Wrap(-x) ELSE x
          res == OpLoop(x1, rest, op, r.ub)
      IN CASE res.st = "fault" -> [r EXCEPT !.status = "fault"]
           [] res.st = "div0" -> RetErr(r, [fmt |-> "Division by zero!"])
           [] OTHER -> Ret(r, LvalNum(res.num))

\* f->builtin(e, a)
Builtin(r, e, a, d, func) ==
  CASE func = "def" -> BuiltinDef(r, e, a)
    [] func = "=" -> BuiltinSet(r, e, a)
    [] func = "fun" -> BuiltinLambda(r, e, a)
    [] func = "list" -> BuiltinList(r, e, a)
    [] func = "head" -> BuiltinHead(r, e, a)
    [] func = "tail" -> BuiltinTail(r, e, a)
    [] func = "eval" -> BuiltinEval(r, e, a, d)
    [] func = "join" -> BuiltinJoin(r, e, a)
    [] OTHER -> BuiltinOp(r, e, a, func)

(***************************************************************************)
(* The call protocol.                                                      *)
(***************************************************************************)
RECURSIVE BindArgs(_, _)

\* a plausible bug: arguments beyond the formals are dropped silently
BindArgs_DropExtra(f, a) ==
  IF Count(a) = 0 \/ Count(f.formals) = 0
    THEN [ok |-> TRUE, f |-> f]
    ELSE
      LET sym == LvalPop(f.formals, 1)
          val == LvalPop(a, 1)
      IN BindArgs([f EXCEPT !.formals = LvalPopRest(@, 1),
                            !.env = LenvPut(@, sym, val)],
                  LvalPopRest(a, 1))

\* the while loop of lval_call: ok is FALSE when arguments are left and no
\* formal is; f is the closure as the loop leaves it
BindArgs(f, a) ==
  IF Count(a) = 0
    THEN [ok |-> TRUE, f |-> f]
    ELSE IF Count(f.formals) = 0
      THEN [ok |-> FALSE, f |-> f]
      ELSE
        LET sym == LvalPop(f.formals, 1)
            val == LvalPop(a, 1)
        IN BindArgs([f EXCEPT !.formals = LvalPopRest(@, 1),
                              !.env = LenvPut(@, sym, val)],
                    LvalPopRest(a, 1))

\* calls traces each call of a closure: the caller's environment, the
\* closure and arguments passed, the closure's environment after the
\* binding loop and (body evaluated) when the body returned, and the result
CallRec(e, f, a, b, body, envEnd, val) ==
  [e |-> e, f |-> f, a |-> a, given |-> Count(a), formals |-> Count(f.formals),
   env |-> b.f.env, body |-> body, envEnd |-> envEnd, val |-> val]

LvalCall(r, e, f, fref, a, d) ==
  IF f.builtin # NULL
    THEN Builtin(r, e, a, d, f.builtin)
    ELSE
      LET given == Count(a)
          total == Count(f.formals)
          b == BindArgs(f, a)
          r1 == [r EXCEPT !.frames = Store(@, fref, b.f)]
      IN IF ~b.ok
           THEN
             LET x == LvalErr([fmt |-> "Function passed too many arguments. Got %i, Expected %i.",
                               given |-> given, total |-> total])
             IN [Ret(r1, x) EXCEPT
                   !.calls = Append(@, CallRec(e, f, a, b, FALSE, b.f.env, x))]
           ELSE IF Count(b.f.formals) = 0
             THEN
               LET fenv == Len(r1.frames) + 1
                   r2 == [r1 EXCEPT
                            !.frames = Append(@, [b.f.env EXCEPT !.parent = e])]
                   r3 == BuiltinEval(r2, fenv, LvalAdd(LvalSexpr, LvalCopy(b.f.body)), d)
               IN IF r3.status # "ok"
                    THEN r3
                    ELSE [r3 EXCEPT
                            !.calls = Append(@, CallRec(e, f, a, b, TRUE,
                                                        r3.frames[fenv], r3.val))]
             ELSE
               LET x == LvalCopy(b.f) IN
                 [Ret(r1, x) EXCEPT
                    !.calls = Append(@, CallRec(e, f, a, b, FALSE, b.f.env, x))]

(***************************************************************************)
(* Eval.                                                                   *)
(***************************************************************************)
\* a plausible bug: the loop stops at the first child that is an Error
EvalCells_ShortCircuit(acc, e, v, i, d) ==
  IF i > Count(v) \/ acc.r.status # "ok"
       \/ (Len(acc.cells) > 0 /\ IsErr(acc.cells[Len(acc.cells)].val))
    THEN acc
    ELSE
      LET r1 == LvalEval(acc.r, e, v.cell[i], d + 1)
          r2 == [r1 EXCEPT !.tick = @ + 1]
      IN EvalCells([r |-> r2,
                    cells |-> Append(acc.cells, [val |-> r1.val, ref |-> r1.ref]),
                    ticks |-> Append(acc.ticks, r2.tick)],
                   e, v, i + 1, d)

\* a plausible bug: the loop evaluates the group again, not its child
EvalCells_Self(acc, e, v, i, d) ==
  IF i > Count(v) \/ acc.r.status # "ok"
    THEN acc
    ELSE
      LET r1 == LvalEval(acc.r, e, v, d + 1)
          r2 == [r1 EXCEPT !.tick = @ + 1]
      IN EvalCells([r |-> r2,
                    cells |-> Append(acc.cells, [val |-> r1.val, ref |-> r1.ref]),
                    ticks |-> Append(acc.ticks, r2.tick)],
                   e, v, i + 1, d)

\* the first loop of lval_eval_sexpr from child i on.  acc.cells are the
\* pointers the children were replaced by, acc.ticks when each returned
EvalCells(acc, e, v, i, d) ==
  IF i > Count(v) \/ acc.r.status # "ok"
    THEN acc
    ELSE
      LET r1 == LvalEval(acc.r, e, v.cell[i], d + 1)
          r2 == [r1 EXCEPT !.tick = @ + 1]
      IN EvalCells([r |-> r2,
                    cells |-> Append(acc.cells, [val |-> r1.val, ref |-> r1.ref]),
                    ticks |-> Append(acc.ticks, r2.tick)],
                   e, v, i + 1, d)

\* groups traces each evaluated group: its environment, its child count, the
\* ticks at which children returned, what they returned (res), what the
\* cells hold when scanned (kids), whether a function was applied, the result
GroupRec(e, v, acc, kids, called, val) ==
  [e |-> e, n |-> Count(v), ticks |-> acc.ticks,
   res |-> [i \in 1 .. Len(acc.cells) |-> acc.cells[i].val],
   kids |-> kids, called |-> called, val |-> val]

LvalEvalSexpr(r, e, v, d) ==
  LET acc == EvalCells([r |-> r, cells |-> <<>>, ticks |-> <<>>], e, v, 1, d)
      r1 == acc.r
  IN IF r1.status # "ok"
       THEN r1
       ELSE
         LET kids == [i \in 1 .. Len(acc.cells) |-> Deref(r1.frames, acc.cells[i])]
             errs == {i \in 1 .. Len(kids) : IsErr(kids[i])}
             done(x, ref, called, rr) ==
               [rr EXCEPT !.val = x, !.ref = ref,
                          !.groups = Append(@, GroupRec(e, v, acc, kids, called, x))]
         IN IF errs # {}
              THEN done(kids[Min(errs)], acc.cells[Min(errs)].ref, FALSE, r1)
              ELSE IF Len(kids) = 0
                THEN done(v, NoRef, FALSE, r1)
                ELSE IF Len(kids) = 1
                  THEN done(kids[1], acc.cells[1].ref, FALSE, r1)
                  ELSE
                    LET f == kids[1]
                        a == [type |-> LVAL_SEXPR, cell |-> Tail(kids)]
                    IN IF f.type # LVAL_FUN
                         THEN done(LvalErr([fmt |-> "S-Expression starts with incorrect type. Got %s, Expected %s.",
                                            got |-> Ltype2name(f.type),
                                            expect |-> Ltype2name(LVAL_FUN)]),
                                   NoRef, FALSE, r1)
                         ELSE
                           LET rc == LvalCall(r1, e, f, acc.cells[1].ref, a, d)
                               \* lval_free(f): its environment is live no more
                               rf == [rc EXCEPT !.frames = SubSeq(@, 1, Len(r1.frames))]
                           IN IF rc.status # "ok"
                                THEN rc
                                ELSE done(rf.val, rf.ref, TRUE, rf)

LvalEval(r, e, v, d) ==
  IF r.status # "ok"
    THEN r
    ELSE IF d > MaxDepth
      THEN [r EXCEPT !.status = "overflow"]
      ELSE
        LET r0 == [r EXCEPT !.maxd = Max(@, d)] IN
          IF v.type = LVAL_SYM
            THEN
              LET g == LenvGet(r0.frames, e, v) IN
                [r0 EXCEPT !.val = g.val, !.ref = g.ref, !.tick = @ + 1,
                           !.gets = Append(@, [e |-> e, sym |-> v.sym,
                                               frames |-> r0.frames, at |-> g.at,
                                               val |-> g.val, tick |-> r0.tick + 1])]
            ELSE IF v.type = LVAL_SEXPR
              THEN LvalEvalSexpr(r0, e, v, d)
              ELSE Ret(r0, v)

(***************************************************************************)
(* Input lines, as lval_read hands them to lval_eval: the root of a line   *)
(* is an S-Expression holding the line's expressions.                      *)
(***************************************************************************)
N(n) == LvalNum(n)

Y(s) == LvalSym(s)

S(cells) == [type |-> LVAL_SEXPR, cell |-> cells]

Q(cells) == [type |-> LVAL_QEXPR, cell |-> cells]

\* a line holding one expression
Line(x) == S(<<x>>)

\* (fun {formals} {body})
Fun(formals, body) == S(<<Y("fun"), Q(formals), Q(body)>>)

\* (def {name} value)
Def(name, value) == S(<<Y("def"), Q(<<Y(name)>>), value>>)

\* lines that bind closures
DefLines ==
  { Line(Def("add", Fun(<<Y("a"), Y("b")>>, <<Y("+"), Y("a"), Y("b")>>))),
    Line(Def("sub3", Fun(<<Y("a"), Y("b"), Y("c")>>,
                         <<Y("-"), Y("a"), Y("b"), Y("c")>>))),
    Line(Def("dup", Fun(<<Y("a"), Y("a")>>, <<Y("+"), Y("a"), Y("x")>>))),
    Line(S(<<Y("def"), Q(<<Y("setg"), Y("setl"), Y("deep")>>),
             Fun(<<Y("a")>>, <<Y("def"), Q(<<Y("x")>>), Y("a")>>),
             Fun(<<Y("a")>>,
                 <<Y("list"), S(<<Y("="), Q(<<Y("x")>>), Y("a")>>), Y("x")>>),
             Fun(<<Y("a")>>, <<Y("setg"), Y("a")>>)>>)),
    Line(Def("loop", Fun(<<Y("a")>>, <<Y("loop"), Y("a")>>))),
    Line(S(<<Y("def"), Q(<<Y("getx"), Y("callg"), Y("x")>>),
             Fun(<<Y("a")>>, <<Y("x")>>),
             Fun(<<Y("x")>>, <<Y("getx"), N(0)>>),
             N(5)>>)),
    Line(Def("mk", Fun(<<Y("a")>>,
                       <<Y("fun"), Q(<<Y("b")>>), Q(<<Y("+"), Y("a"), Y("b")>>)>>))) }

\* lines that bind numbers, well-formed or not
VarLines ==
  { Line(Def("x", N(1))),
    Line(S(<<Y("="), Q(<<Y("x")>>), N(2)>>)),
    Line(S(<<Y("def"), Q(<<Y("x"), Y("x")>>), N(3), N(4)>>)),
    Line(S(<<Y("def"), Q(<<Y("x"), Y("a")>>), N(5)>>)),
    Line(S(<<Y("="), Q(<<Y("x")>>), N(5), N(6)>>)),
    Line(S(<<Y("def"), Q(<<Y("x"), N(1)>>), N(5), N(6)>>)),
    Line(S(<<Y("def"), N(7), N(5)>>)) }

\* lines whose groups hold an Error among their children, or bind in turn
GroupLines ==
  { Line(S(<<Y("+"), Y("nosuch"), Def("x", N(5))>>)),
    Line(S(<<Y("list"), Def("x", N(1)), Y("x"), Def("x", N(2)), Y("x")>>)),
    Line(S(<<Y("+"), N(1), Y("no1"), Y("no2")>>)),
    Line(S(<<Y("nofun"), N(1), S(<<Y("/"), N(1), N(0)>>)>>)),
    Line(S(<<N(1), N(2)>>)),
    Line(S(<<Y("eval"), Q(<<Y("+"), N(1), N(2)>>)>>)),
    Line(S(<<Y("head"), S(<<Y("join"), Q(<<N(1)>>), Q(<<N(2), N(3)>>)>>)>>)),
    Line(S(<<Y("tail"), Q(<<>>)>>)) }

\* lines that call the closures
CallLines ==
  { Line(S(<<Y("add"), N(1), N(2)>>)),
    Line(S(<<S(<<Y("add"), N(1)>>), N(2)>>)),
    Line(S(<<Y("list"), S(<<Y("add"), N(1)>>), S(<<Y("add"), N(1), N(2)>>)>>)),
    Line(S(<<Y("add"), N(1), N(2), N(3)>>)),
    Line(S(<<S(<<Y("add"), N(1)>>), N(2), N(3)>>)),
    Line(S(<<S(<<Y("sub3"), N(7)>>), N(2), N(1)>>)),
    Line(S(<<Y("dup"), N(1), N(2)>>)),
    Line(S(<<Y("list"), S(<<Y("def"), Q(<<Y("x"), Y("x")>>), N(3), N(4)>>),
             S(<<Y("dup"), N(1), N(2)>>)>>)),
    Line(S(<<Y("list"), S(<<Y("add"), N(1)>>), Y("add"), Def("add", N(5)), Y("add")>>)),
    Line(S(<<Y("setg"), N(3)>>)),
    Line(S(<<Y("setl"), N(4)>>)),
    Line(S(<<Y("deep"), N(6)>>)),
    Line(S(<<Y("list"), S(<<Y("setl"), N(4)>>), S(<<Y("deep"), N(6)>>), Y("x")>>)),
    Line(S(<<Y("loop"), N(1)>>)),
    Line(S(<<Y("callg"), N(7)>>)),
    Line(S(<<S(<<Y("mk"), N(1)>>), N(2)>>)),
    Line(S(<<S(<<Y("fun"), Q(<<Y("a")>>), Q(<<Y("list"), Y("a"), Y("x")>>)>>), N(2)>>)) }

Lines == DefLines \cup VarLines \cup GroupLines \cup CallLines

(***************************************************************************)
(* The loop of main().                                                     *)
(***************************************************************************)
Init ==
  /\ genv = LenvAddBuiltins(LenvNew, 1)
  /\ out = [status |-> "ok", val |-> LvalSexpr]
  /\ hist = [line |-> LvalSexpr, pre |-> LenvNew, r |-> StartEval(LenvNew, "wrap")]
  /\ lines = 0

\* one turn of the loop: the line read is evaluated in the global
\* environment and the result printed.  A process that died reads no more.
ReadEvalPrint(line, ub) ==
  /\ lines < MaxLines
  /\ out.status = "ok"
  /\ LET r == LvalEval(StartEval(genv, ub), 1, line, 1) IN
       /\ genv' = r.frames[1]
       /\ out' = [status |-> r.status,
                  val |-> IF r.status = "ok" THEN r.val ELSE LvalSexpr]
       /\ hist' = [line |-> line, pre |-> genv, r |-> r]
  /\ lines' = lines + 1

Next == \E line \in Lines : \E ub \in UBOutcomes : ReadEvalPrint(line, ub)

Spec == Init /\ [][Next]_vars

(***************************************************************************)
(* Division alone: one line (/ a b), a and b over the whole Number range.  *)
(***************************************************************************)
DivLine(a, b) == Line(S(<<Y("/"), N(a), N(b)>>))

Divide(a, b, ub) == lines = 0 /\ ReadEvalPrint(DivLine(a, b), ub)

NextDiv == \E a \in NumRange : \E b \in NumRange : \E ub \in UBOutcomes : Divide(a, b, ub)

SpecDiv == Init /\ [][NextDiv]_vars

(***************************************************************************)
(* Application of closures alone: lines that bind a closure of two or      *)
(* three formals to a symbol, and lines that apply a bound closure to as   *)
(* many argument values as it has formals, at once or the first k first.   *)
(***************************************************************************)
\* argument values: Numbers and a List
ArgVals == {N(1), N(2), Q(<<N(3)>>)}

CurryDefLines ==
  { Line(Def("add", Fun(<<Y("a"), Y("b")>>, <<Y("+"), Y("a"), Y("b")>>))),
    Line(Def("sub3", Fun(<<Y("a"), Y("b"), Y("c")>>,
                         <<Y("-"), Y("a"), Y("b"), Y("c")>>))),
    Line(Def("dup", Fun(<<Y("a"), Y("a")>>, <<Y("list"), Y("a"), Y("x")>>))),
    Line(Def("acc", Fun(<<Y("a"), Y("b")>>,
                        <<Y("def"), Q(<<Y("x")>>), S(<<Y("-"), Y("a"), Y("b")>>)>>))),
    Line(Def("loc", Fun(<<Y("a"), Y("b")>>,
                        <<Y("list"), S(<<Y("="), Q(<<Y("b")>>), Y("a")>>), Y("b")>>))),
    Line(Def("x", N(7))) }

CurryNames == {"add", "sub3", "dup", "acc", "loc"}

\* (s args) and ((s args[1..k]) args[k+1..])
FullLine(s, args) == Line(S(<<Y(s)>> \o args))

PartialLine(s, args, k) ==
  Line(S(<<S(<<Y(s)>> \o SubSeq(args, 1, k))>> \o SubSeq(args, k + 1, Len(args))))

\* s is bound globally to a closure with n formals
BoundClosure(g, s, n) ==
  /\ Find(g.syms, s) > 0
  /\ IsClosure(g.vals[Find(g.syms, s)])
  /\ Count(g.vals[Find(g.syms, s)].formals) = n

\* the lines applying a symbol bound to a closure of n formals to n argument
\* values: at once, and split after the first k
ApplyLines(g) ==
  UNION { UNION { { FullLine(s, args) } \cup
                  { PartialLine(s, args, k) : k \in 1 .. (Len(args) - 1) } :
                  args \in { a \in [1 .. 2 -> ArgVals] \cup [1 .. 3 -> ArgVals] :
                             BoundClosure(g, s, Len(a)) } } :
          s \in CurryNames }

NextCurry ==
  \E ub \in UBOutcomes :
    \E line \in CurryDefLines \cup ApplyLines(genv) : ReadEvalPrint(line, ub)

SpecCurry == Init /\ [][NextCurry]_vars

(***************************************************************************)
(* The trace of the evaluation of the last line.                           *)
(***************************************************************************)
Groups == hist.r.groups

Calls == hist.r.calls

Puts == hist.r.puts

Gets == hist.r.gets

Vars == hist.r.vars

Lambdas == hist.r.lambdas

Range(s) == {s[i] : i \in 1 .. Len(s)}

\* the value bound to name in environment e (name is bound in e)
Bound(e, name) == e.vals[Find(e.syms, name)]

(***************************************************************************)
(* C1.  An evaluated group evaluates every child, left to right, whether   *)
(* or not an earlier child produced an Error; then, if a child is an       *)
(* Error, the group's result is the leftmost one and no function is        *)
(* applied.                                                                *)
(***************************************************************************)
C1_EvalAllThenLeftmostError ==
  \A k \in 1 .. Len(Groups) :
    LET g == Groups[k]
        errs == {i \in 1 .. Len(g.kids) : IsErr(g.kids[i])}
    IN /\ Len(g.res) = g.n
       /\ Len(g.ticks) = g.n
       /\ \A i \in 1 .. (g.n - 1) : g.ticks[i] < g.ticks[i + 1]
       /\ errs # {} => /\ ~g.called
                       /\ g.val = g.kids[Min(errs)]

\* a group whose first child is an Error and whose later child, a def, was
\* evaluated all the same: its binding is in the global environment
C1_Witness ==
  \E k \in 1 .. Len(Groups) :
    LET g == Groups[k] IN
      /\ g.n >= 3
      /\ IsErr(g.kids[2])
      /\ g.val = g.kids[2]
      /\ ~g.called
      /\ \E j \in 1 .. Len(Puts) :
           /\ Puts[j].func = "def"
           /\ Puts[j].tick > g.ticks[2]
           /\ Puts[j].tick < g.ticks[g.n]
           /\ Find(genv.syms, Puts[j].sym) > 0
           /\ Find(hist.pre.syms, Puts[j].sym) = 0

(***************************************************************************)
(* C3.  A closure applied to more arguments than it has formals left       *)
(* yields the TooManyArguments Error with given = the arguments of that    *)
(* call and total = the formals left when the call began, and its body is  *)
(* not evaluated.                                                          *)
(***************************************************************************)
C3_TooManyArguments ==
  \A k \in 1 .. Len(Calls) :
    LET c == Calls[k] IN
      c.given > c.formals =>
        /\ c.val = LvalErr([fmt |-> "Function passed too many arguments. Got %i, Expected %i.",
                            given |-> c.given, total |-> c.formals])
        /\ ~c.body

\* a partially applied closure, one formal left, is given two arguments
C3_Witness ==
  \E k \in 1 .. Len(Calls) :
    /\ Calls[k].given = 2
    /\ Calls[k].formals = 1
    /\ Len(Calls[k].f.env.syms) = 1
    /\ IsErr(out.val)
    /\ out.val = Calls[k].val

\* the value paired with the last occurrence of name among the symbols of a
PairedValue(a, name) ==
  LET syms == a.cell[1].cell
      last == CHOOSE i \in 1 .. Len(syms) :
                syms[i].sym = name /\ \A j \in (i + 1) .. Len(syms) : syms[j].sym # name
  IN a.cell[last + 1]

VarNames(a) == {a.cell[1].cell[i].sym : i \in 1 .. Count(a.cell[1])}

(***************************************************************************)
(* C4.  def binds in the outermost (global) environment from any depth,    *)
(* and the name stays visible there; = inside a closure call binds in that *)
(* call's environment only and leaves the global one as it was.            *)
(***************************************************************************)
C4_DefGlobalSetLocal ==
  \A k \in 1 .. Len(Vars) :
    LET v == Vars[k]
        at == IF v.func = "def" THEN 1 ELSE v.e
    IN ~IsErr(v.val) =>
         /\ Len(v.after) = Len(v.before)
         /\ \A j \in 1 .. Len(v.after) : j # at => v.after[j] = v.before[j]
         /\ \A name \in VarNames(v.a) :
              /\ Find(v.after[at].syms, name) > 0
              /\ Bound(v.after[at], name) = PairedValue(v.a, name)
              /\ v.func = "def" => Find(genv.syms, name) > 0

\* one line in which a = inside a closure call bound x in the call's
\* environment (the call saw 4, the global environment did not) and then a
\* def two closure calls deep bound x globally
C4_Witness ==
  /\ \E k \in 1 .. Len(Vars) :
       /\ Vars[k].func = "="
       /\ Vars[k].e = 2
       /\ ~IsErr(Vars[k].val)
       /\ Find(Vars[k].after[1].syms, "x") = 0
       /\ Bound(Vars[k].after[2], "x") = N(4)
  /\ \E k \in 1 .. Len(Vars) :
       /\ Vars[k].func = "def"
       /\ Vars[k].e = 3
       /\ ~IsErr(Vars[k].val)
  /\ Find(hist.pre.syms, "x") = 0
  /\ Bound(genv, "x") = N(6)
  /\ out.val = Q(<<Q(<<LvalSexpr, N(4)>>), LvalSexpr, N(6)>>)

VarPrecondition(a) ==
  /\ a.cell[1].type = LVAL_QEXPR
  /\ \A i \in 1 .. Count(a.cell[1]) : a.cell[1].cell[i].type = LVAL_SYM
  /\ Count(a.cell[1]) = Count(a) - 1

(***************************************************************************)
(* C10.  def and = are all-or-nothing: a call that fails a precondition    *)
(* (argument 0 not a List, an element of it not a Symbol, the number of    *)
(* values not the number of symbols) returns an Error and changes no       *)
(* binding of any environment.                                             *)
(***************************************************************************)
C10_VarAllOrNothing ==
  \A k \in 1 .. Len(Vars) :
    LET v == Vars[k] IN
      /\ ~VarPrecondition(v.a) => IsErr(v.val)
      /\ IsErr(v.val) => v.after = v.before

\* a def with two symbols and one value, and a = with one symbol and two
\* values, inside and outside a closure call
C10_Witness ==
  \E k \in 1 .. Len(Vars) :
    LET v == Vars[k] IN
      /\ v.a.cell[1].type = LVAL_QEXPR
      /\ Count(v.a.cell[1]) >= 1
      /\ \A i \in 1 .. Count(v.a.cell[1]) : v.a.cell[1].cell[i].type = LVAL_SYM
      /\ Count(v.a) >= 2
      /\ Count(v.a.cell[1]) # Count(v.a) - 1
      /\ IsErr(out.val)
      /\ genv = hist.pre

\* the names bound in the global environment by the puts of the last line
PutGlobally == {Puts[j].sym : j \in {i \in 1 .. Len(Puts) :
                                       Puts[i].func = "def" \/ Puts[i].e = 1}}

\* no put of the last line before tick t bound name globally
Unbound(name, t) ==
  \A j \in 1 .. Len(Puts) :
    (Puts[j].sym = name /\ Puts[j].tick < t) => (Puts[j].func = "=" /\ Puts[j].e > 1)

(***************************************************************************)
(* C5.  A value returned by lookup is independent of the stored binding:   *)
(* rebinding the symbol later does not change a value looked up earlier,   *)
(* and calling a closure bound to a symbol, fully or partially, leaves the *)
(* stored closure as it was.  So a binding of the global environment       *)
(* changes only when def, or = at top level, binds its name.               *)
(***************************************************************************)
C5_CopyIndependence ==
  /\ \A k \in 1 .. Len(Groups) : Groups[k].kids = Groups[k].res
  /\ \A k \in 1 .. Len(Gets) :
       LET g == Gets[k] IN
         (g.at = 1 /\ Find(hist.pre.syms, g.sym) > 0 /\ Unbound(g.sym, g.tick))
           => g.val = Bound(hist.pre, g.sym)
  /\ \A i \in 1 .. Len(hist.pre.syms) :
       /\ Len(genv.syms) >= i
       /\ genv.syms[i] = hist.pre.syms[i]
       /\ hist.pre.syms[i] \notin PutGlobally => genv.vals[i] = hist.pre.vals[i]

\* one line called the closure bound to add partially, looked add up again
\* (the stored closure, both formals left), rebound add to 5, and looked it
\* up once more: the group still holds the closure looked up earlier
C5_Witness ==
  /\ Find(hist.pre.syms, "add") > 0
  /\ IsClosure(Bound(hist.pre, "add"))
  /\ \E k \in 1 .. Len(Calls) :
       /\ Calls[k].given < Calls[k].formals
       /\ Calls[k].f = Bound(hist.pre, "add")
  /\ \E k \in 1 .. Len(Groups) : \E i \in 1 .. Len(Gets) : \E j \in 1 .. Len(Puts) :
       LET g == Groups[k] IN
         /\ g.n = 5
         /\ Gets[i].sym = "add"
         /\ Puts[j].sym = "add"
         /\ g.ticks[2] < Gets[i].tick
         /\ Gets[i].tick < Puts[j].tick
         /\ Puts[j].tick < g.ticks[g.n]
         /\ Gets[i].val = Bound(hist.pre, "add")
         /\ g.kids[3] = Gets[i].val
         /\ g.kids[5] = N(5)
  /\ Bound(genv, "add") = N(5)

RECURSIVE Nesting(_)

Nesting(v) ==
  IF v.type = LVAL_SEXPR /\ Count(v) > 0
    THEN 1 + MaxOf({Nesting(v.cell[i]) : i \in 1 .. Count(v)})
    ELSE 1

C8_DynamicResolution ==
  /\ \A k \in 1 .. Len(Gets) :
       LET g == Gets[k]
           holders == {j \in 1 .. g.e : Find(g.frames[j].syms, g.sym) > 0}
           nearest == CHOOSE j \in holders : \A i \in holders : i <= j
       IN /\ g.e = Len(g.frames)
          /\ \A j \in 1 .. Len(g.frames) : g.frames[j].parent = j - 1
          /\ IF holders = {}
               THEN /\ g.at = 0
                    /\ g.val = LvalErr([fmt |-> "Unknown symbol '%s' !", sym |-> g.sym])
               ELSE /\ g.at = nearest
                    /\ g.val = Bound(g.frames[nearest], g.sym)
  /\ \A k \in 1 .. Len(Lambdas) : Lambdas[k].env = LenvNew
  /\ \A k \in 1 .. Len(Calls) :
       Calls[k].body =>
         Range(Calls[k].env.syms) \subseteq
           {Calls[k].f.formals.cell[i].sym : i \in 1 .. Count(Calls[k].f.formals)}
             \cup Range(Calls[k].f.env.syms)

\* x is bound globally (5) and is the formal of callg (7); the body of getx,
\* called from the body of callg, resolved x in callg's environment
C8_Witness ==
  \E k \in 1 .. Len(Gets) :
    LET g == Gets[k] IN
      /\ g.e = 3
      /\ g.sym = "x"
      /\ g.at = 2
      /\ Find(g.frames[3].syms, "x") = 0
      /\ Find(g.frames[1].syms, "x") > 0
      /\ g.val # Bound(g.frames[1], "x")
      /\ out.val = g.val

RECURSIVE EnvsOfVal(_)
RECURSIVE EnvsOfEnv(_)

\* the environments held by the closures inside value v
EnvsOfVal(v) ==
  CASE v.type = LVAL_FUN ->
         IF v.builtin # NULL
           THEN {}
           ELSE {v.env} \cup EnvsOfEnv(v.env) \cup EnvsOfVal(v.formals)
                  \cup EnvsOfVal(v.body)
    [] v.type \in {LVAL_SEXPR, LVAL_QEXPR} ->
         UNION {EnvsOfVal(v.cell[i]) : i \in 1 .. Count(v)}
    [] OTHER -> {}

EnvsOfEnv(e) == UNION {EnvsOfVal(e.vals[i]) : i \in 1 .. Len(e.vals)}

NoDuplicate(syms) ==
  \A i, j \in 1 .. Len(syms) : syms[i] = syms[j] => i = j

\* every environment the last line left or had: the global one, those of
\* the result, those closures were called with and ended with
Environments ==
  {genv} \cup EnvsOfEnv(genv) \cup EnvsOfVal(out.val)
    \cup UNION {{Calls[k].env, Calls[k].envEnd} \cup EnvsOfEnv(Calls[k].envEnd)
                  \cup EnvsOfVal(Calls[k].val) : k \in 1 .. Len(Calls)}

(***************************************************************************)
(* C9.  Every environment (the global one, every closure's, copies         *)
(* included) holds each name at most once, whoever bound it: def, =, or    *)
(* the binding of a closure's formals, with a name twice in one list too.  *)
(***************************************************************************)
C9_UniqueNames ==
  \A e \in Environments : NoDuplicate(e.syms) /\ Len(e.vals) = Len(e.syms)

\* one line named x twice in a def (x is bound once, to the second value)
\* and gave both arguments to a closure whose formals name a twice (its
\* environment holds a once, bound to the second)
C9_Witness ==
  /\ \E k \in 1 .. Len(Calls) :
       LET c == Calls[k] IN
         /\ c.given = 2
         /\ c.formals = 2
         /\ c.f.formals.cell[1] = c.f.formals.cell[2]
         /\ c.env.syms = <<"a">>
         /\ c.env.vals = <<c.a.cell[2]>>
         /\ c.envEnd.syms = <<"a">>
  /\ \E k \in 1 .. Len(Vars) :
       /\ Vars[k].a.cell[1].type = LVAL_QEXPR
       /\ Count(Vars[k].a.cell[1]) = 2
       /\ Vars[k].a.cell[1].cell[1] = Vars[k].a.cell[1].cell[2]
       /\ ~IsErr(Vars[k].val)
       /\ Cardinality({i \in 1 .. Len(genv.syms) : genv.syms[i] = "x"}) = 1
       /\ Bound(genv, "x") = Vars[k].a.cell[3]
  /\ out.val = Q(<<LvalSexpr, N(6)>>)

\* the line is ((s v1 .. vk) vk+1 .. vn) with s bound to a closure of n
\* formals and 0 < k < n
IsPartialLine(g, line) ==
  /\ Count(line) = 1
  /\ line.cell[1].type = LVAL_SEXPR
  /\ Count(line.cell[1]) >= 2
  /\ line.cell[1].cell[1].type = LVAL_SEXPR
  /\ Count(line.cell[1].cell[1]) >= 2
  /\ line.cell[1].cell[1].cell[1].type = LVAL_SYM
  /\ BoundClosure(g, line.cell[1].cell[1].cell[1].sym,
                  Count(line.cell[1]) - 1 + Count(line.cell[1].cell[1]) - 1)

\* the same symbol applied to the same arguments at once
FullOf(line) == Line(S(line.cell[1].cell[1].cell \o Tail(line.cell[1].cell)))

(***************************************************************************)
(* C2.  Partial application is equivalent to full application: a closure   *)
(* with n formals bound to a symbol, applied to the first k of n argument  *)
(* values (0 < k < n), yields a Function with the n - k formals left, and  *)
(* that Function applied to the other arguments yields what the closure    *)
(* applied to all n at once yields.                                        *)
(***************************************************************************)
C2_PartialEqualsFull ==
  (lines > 0 /\ IsPartialLine(hist.pre, hist.line)) =>
    LET full == LvalEval(StartEval(hist.pre, hist.r.ub), 1, FullOf(hist.line), 1)
        k == Count(hist.line.cell[1].cell[1]) - 1
        n == k + Count(hist.line.cell[1]) - 1
    IN /\ Len(Calls) >= 1
       /\ Calls[1].given = k
       /\ Calls[1].formals = n
       /\ IsClosure(Calls[1].val)
       /\ Count(Calls[1].val.formals) = n - k
       /\ out.status = full.status
       /\ out.val = full.val
       /\ genv = full.frames[1]

\* ((add 1) 2) was evaluated with add bound to a closure of two formals:
\* (add 1) yielded a Function with one formal left, and the line Number 3
C2_Witness ==
  /\ lines > 0
  /\ IsPartialLine(hist.pre, hist.line)
  /\ hist.line.cell[1].cell[1].cell[1].sym = "add"
  /\ Len(Calls) = 2
  /\ Count(Calls[1].val.formals) = 1
  /\ Calls[2].body
  /\ out.val = N(3)

\* a / b truncated toward zero, in the integers
Quotient(a, b) ==
  CHOOSE q \in -(2 ^ NumBits) .. (2 ^ NumBits) :
    \E m \in -(2 ^ NumBits) .. (2 ^ NumBits) :
      /\ a = q * b + m
      /\ Abs(m) < Abs(b)
      /\ m = 0 \/ ((m < 0) = (a < 0))

(***************************************************************************)
(* C6.  As claimed: for all a and b of the Number type, (/ a b) yields the *)
(* Number a / b truncated toward zero when b # 0 (the minimum divided by   *)
(* -1 included) and an Error when b = 0, and the process never faults.     *)
(***************************************************************************)
C6_DivisionTotal ==
  \A a \in NumRange : \A b \in NumRange :
    (lines > 0 /\ hist.line = DivLine(a, b)) =>
      /\ out.status = "ok"
      /\ b # 0 => out.val = N(Quotient(a, b))
      /\ b = 0 => IsErr(out.val)

====
